---------------------------- MODULE Spec2Model ----------------------------
(***************************************************************************)
(* A model of pydism (src/pydism.py): the menu loop of main, the two       *)
(* process runners run_dism_command and run_sfc, the child process and     *)
(* the pipe they read from.                                                *)
(*                                                                         *)
(* Text is a sequence of fragments.  A fragment is an atomic piece of text *)
(* (a word, a phrase part, a whitespace character, a percentage such as    *)
(* "62.5%"); substring search is search for a contiguous run of fragments. *)
(* Progress values are kept in tenths of a percent (62.5% is 625).         *)
(***************************************************************************)
EXTENDS Integers, Sequences, FiniteSets, TLC

VARIABLES
    pc,             \* position of the main thread
    choice,         \* the menu option being served (main, line 322)
    tool,           \* "dism" or "sfc": which runner is active
    is_restore,     \* run_dism_command's parameter
    capture_output, \* run_dism_command's parameter
    child,          \* the run's child process: none / running / closed / exited
    exitcode,       \* the exit code the child exited with
    pipe,           \* what the child wrote and the runner has not read yet
    written,        \* everything the run's child wrote, in order
    output_lines,   \* run_dism_command's local (line 113)
    last_progress,  \* run_dism_command's local (line 111)
    pause_notified, \* run_dism_command's local (line 112)
    last_percent,   \* run_sfc's local (line 217)
    result_buffer,  \* run_sfc's local (line 218)
    notes,          \* the notifications printed during the run, in order
    raised,         \* the exception the run's try block raised, or "none"
    outcome,        \* what the run returned to main
    dism_success,   \* main's local in option 4 (line 374)
    report,         \* the last message main printed for an operation
    orphans,        \* children of earlier runs that are still running
    elapsed,        \* wall-clock seconds since the child was spawned
    earlier         \* the progress state the last finished DISM run ended with

vars == << pc, choice, tool, is_restore, capture_output, child, exitcode, pipe,
           written, output_lines, last_progress, pause_notified, last_percent,
           result_buffer, notes, raised, outcome, dism_success, report,
           orphans, elapsed, earlier >>

-----------------------------------------------------------------------------
(* Bounds of the model. *)

\* lines or chunks one child writes, in the specification of the whole program
MaxLines == 2
\* lines one child writes when the progress values never decrease
MaxMonotoneLines == 6
\* lines one child writes when the progress values come in any order
MaxProgressLines == 4
\* lines or chunks one child writes when the result texts are enumerated
MaxClassifyLines == 3
\* seconds of wall-clock the model follows one run for
MaxElapsed == 5400

-----------------------------------------------------------------------------
(* Program constants. *)

\* process.wait(timeout=3600)
DismTimeout == 3600
\* process.wait(timeout=1800)
SfcTimeout == 1800
\* last_progress = None
NoProgress == -1
\* last_percent = -1
NoPercent == -1
\* 62.0 <= progress <= 63.0, in tenths
PauseLow == 620
PauseHigh == 630
\* progress >= 65.0, in tenths
Mark65 == 650
\* progress >= 90.0, in tenths
Mark90 == 900
\* bar_width = 50
BarWidth == 50
\* one step of the wall clock, in seconds: the shorter of the two timeouts
TickSeconds == SfcTimeout

-----------------------------------------------------------------------------
(* Text. *)

Whitespace == {" ", "\n", "\r", "\t"}

\* str.lower(), fragment by fragment
LowerFragment(f) ==
    CASE f = "No component store corruption detected"
                -> "no component store corruption detected"
      [] f = "Repairable" -> "repairable"
      [] f = "Successfully" -> "successfully"
      [] f = "Completed" -> "completed"
      [] f = "Verification" -> "verification"
      [] f = "Complete" -> "complete"
      [] f = "Did not find any" -> "did not find any"
      [] f = "Found corrupt files" -> "found corrupt files"
      [] OTHER -> f

Lower(text) == [i \in 1..Len(text) |-> LowerFragment(text[i])]

\* needle in text
Contains(text, needle) ==
    \E i \in 0..(Len(text) - Len(needle)) :
        \A j \in 1..Len(needle) : text[i + j] = needle[j]

\* str.strip()
RECURSIVE LStrip(_)
LStrip(text) ==
    IF text # << >> /\ Head(text) \in Whitespace THEN LStrip(Tail(text)) ELSE text

RECURSIVE RStrip(_)
RStrip(text) ==
    IF text # << >> /\ text[Len(text)] \in Whitespace
    THEN RStrip(SubSeq(text, 1, Len(text) - 1))
    ELSE text

Strip(text) == RStrip(LStrip(text))

\* '\n'.join(lines)
RECURSIVE JoinLines(_)
JoinLines(lines) ==
    IF lines = << >> THEN << >>
    ELSE IF Len(lines) = 1 THEN lines[1]
    ELSE lines[1] \o << "\n" >> \o JoinLines(Tail(lines))

\* text.split('\n')
RECURSIVE SplitLines(_)
SplitLines(text) ==
    LET cuts == {i \in 1..Len(text) : text[i] = "\n"}
    IN  IF cuts = {} THEN << text >>
        ELSE LET c == CHOOSE i \in cuts : \A k \in cuts : i <= k
             IN  << SubSeq(text, 1, c - 1) >>
                     \o SplitLines(SubSeq(text, c + 1, Len(text)))

\* text.replace('\x00', '')
RECURSIVE StripNulls(_)
StripNulls(text) ==
    IF text = << >> THEN << >>
    ELSE IF Head(text) = "\\x00" THEN StripNulls(Tail(text))
    ELSE << Head(text) >> \o StripNulls(Tail(text))

\* the concatenation of a sequence of texts
RECURSIVE Flatten(_)
Flatten(texts) ==
    IF texts = << >> THEN << >> ELSE Head(texts) \o Flatten(Tail(texts))

-----------------------------------------------------------------------------
(* Percentages. *)

\* float(match.group(1)) of (\d+\.?\d*)%, in tenths of a percent
DismFloat(f) ==
    CASE f = "0.0%" -> 0
      [] f = "10.0%" -> 100
      [] f = "40.0%" -> 400
      [] f = "62.0%" -> 620
      [] f = "62.5%" -> 625
      [] f = "63.0%" -> 630
      [] f = "64.0%" -> 640
      [] f = "66.0%" -> 660
      [] f = "70.0%" -> 700
      [] f = "91.0%" -> 910
      [] f = "100.0%" -> 1000
      [] f = "50%" -> 500
      [] f = "100%" -> 1000

DismPercents == {"0.0%", "10.0%", "40.0%", "62.0%", "62.5%", "63.0%", "64.0%",
                 "66.0%", "70.0%", "91.0%", "100.0%", "50%", "100%"}

\* int(match.group(1)) of (\d+)\s*%
SfcInt(f) ==
    CASE f = "0%" -> 0
      [] f = "50%" -> 50
      [] f = "100%" -> 100
      [] f = "62.5%" -> 5

SfcPercents == {"0%", "50%", "100%", "62.5%"}

\* "%" in text
HasPercentSign(text) ==
    \E i \in 1..Len(text) : text[i] \in DismPercents \cup SfcPercents \cup {"%"}

\* re.search: the position of the leftmost match, 0 when there is none
FirstMatch(text, percents) ==
    LET hits == {i \in 1..Len(text) : text[i] \in percents}
    IN  IF hits = {} THEN 0 ELSE CHOOSE i \in hits : \A k \in hits : i <= k

-----------------------------------------------------------------------------
(* The progress interpreter of run_dism_command (lines 126-150). *)

\* the pause branch without its once-only flag
PauseFiresAlways(progress, notified) ==
    PauseLow <= progress /\ progress <= PauseHigh

\* 62.0 <= progress <= 63.0 and not pause_notified
PauseFires(progress, notified) ==
    PauseLow <= progress /\ progress <= PauseHigh /\ ~notified

\* the truth value of last_progress: None and 0.0 are false
Truthy(last) == last # NoProgress /\ last # 0

\* the 65% branch without the test of the previous value
Crosses65Anywhere(progress, last) ==
    progress >= Mark65 /\ Truthy(last)

\* progress >= 65.0 and last_progress and last_progress < 65.0
Crosses65(progress, last) ==
    progress >= Mark65 /\ Truthy(last) /\ last < Mark65

\* progress >= 90.0 and last_progress and last_progress < 90.0
Crosses90(progress, last) ==
    progress >= Mark90 /\ Truthy(last) /\ last < Mark90

\* the if / elif / elif chain: the one notification an update prints
Milestone(progress, last, notified) ==
    IF PauseFires(progress, notified) THEN "pause"
    ELSE IF Crosses65(progress, last) THEN "cross65"
    ELSE IF Crosses90(progress, last) THEN "cross90"
    ELSE "none"

-----------------------------------------------------------------------------
(* The result classifiers. *)

NoCorruption == << "No component store corruption detected" >>
Repairable == << "repairable" >>
SuccessfullyRepaired == << "successfully", " ", "repaired" >>
CompletedSuccessfully == << "completed", " ", "successfully" >>

\* the classifier with its first two tests in the other order
ClassifyDismRepairableFirst(output_text) ==
    IF Contains(Lower(output_text), Repairable)
    THEN "RepairableCorruptionFound"
    ELSE IF Contains(output_text, NoCorruption) THEN "Healthy"
    ELSE IF \/ Contains(Lower(output_text), << "successfully", " ", "repaired" >>)
            \/ Contains(Lower(output_text), << "completed", " ", "successfully" >>)
         THEN "CompletedSuccessfully"
    ELSE "Unclassified"

\* run_dism_command, lines 160-166
ClassifyDism(output_text) ==
    IF Contains(output_text, NoCorruption) THEN "Healthy"
    ELSE IF Contains(Lower(output_text), Repairable)
         THEN "RepairableCorruptionFound"
    ELSE IF \/ Contains(Lower(output_text), SuccessfullyRepaired)
            \/ Contains(Lower(output_text), CompletedSuccessfully)
         THEN "CompletedSuccessfully"
    ELSE "Unclassified"

NoViolations == << "did not find any", " ", "integrity violations" >>
RepairedFiles == << "found corrupt files", " ", "and successfully repaired" >>
UnrepairedFiles == << "found corrupt files", " ", "but was unable to fix" >>

\* run_sfc, lines 258-263: the lines of result_buffer that are kept
KeepLine(line) ==
    /\ line # << >>
    /\ ~Contains(Lower(line), << "verification" >>)
    /\ ~Contains(Lower(line), << "complete" >>)

RECURSIVE JoinKept(_)
JoinKept(lines) ==
    IF lines = << >> THEN << >>
    ELSE (IF KeepLine(Strip(Head(lines)))
          THEN Strip(Head(lines)) \o << " " >>
          ELSE << >>) \o JoinKept(Tail(lines))

\* run_sfc, lines 255-263
FinalResult(buffer) ==
    IF buffer = << >> THEN << >> ELSE JoinKept(SplitLines(buffer))

\* run_sfc, lines 272-279
ClassifySfc(final_result) ==
    IF Contains(Lower(final_result), NoViolations) THEN "NoViolations"
    ELSE IF Contains(Lower(final_result), RepairedFiles)
         THEN "RepairedCorruptFiles"
    ELSE IF Contains(Lower(final_result), UnrepairedFiles)
         THEN "UnrepairedCorruptFiles"
    ELSE IF Strip(final_result) # << >> THEN "Unclassified"
    ELSE "NoResultText"

\* success taken from the sign of the return code
SuccessNonNegative(return_code) == return_code >= 0

\* return_code == 0
Success(return_code) == return_code = 0

-----------------------------------------------------------------------------
(* Exceptions. *)

\* what Popen, the reads and the prints of the try blocks can raise
SpawnErrors == {"OSError"}
ReadErrors(t) == IF t = "dism" THEN {"UnicodeDecodeError", "OSError"}
                 ELSE {"OSError"}

\* str(e)
Message(e) == << e >>

\* a runner whose only except clause is the one for the timeout
CatchesTimeoutOnly(t, e) == e = "TimeoutExpired"

\* except subprocess.TimeoutExpired / except Exception: every exception the
\* try block raises is an Exception and is caught
Catches(t, e) ==
    e \in {"OSError", "UnicodeDecodeError", "TimeoutExpired"}

\* what the except clauses return (lines 172-183 and 283-286)
ExceptOutcome(t, capture, e) ==
    IF t = "dism" /\ e = "TimeoutExpired"
    THEN [success |-> FALSE,
          output  |-> IF capture THEN << "Timeout" >> ELSE << >>,
          class   |-> "Timeout"]
    ELSE [success |-> FALSE,
          output  |-> IF t = "dism" /\ capture THEN Message(e) ELSE << >>,
          class   |-> "Failure"]

NoOutcome == [success |-> FALSE, output |-> << >>, class |-> "none"]

\* the timeout of process.wait
Timeout(t) == IF t = "dism" THEN DismTimeout ELSE SfcTimeout

-----------------------------------------------------------------------------
(* State. *)

params    == << tool, is_restore, capture_output >>
childVars == << child, exitcode, pipe, written >>
runLocals == << output_lines, last_progress, pause_notified, last_percent,
                result_buffer, notes >>
mainVars  == << choice, dism_success, report, earlier >>

\* progress state held in one place for all runs, left as the last run left it
RunStartShared == earlier

\* last_progress = None, pause_notified = False: the locals of a new run
RunStart == [last_progress |-> NoProgress, pause_notified |-> FALSE]

ExitCodes == {0, 1}

Init ==
    /\ pc = "menu"
    /\ choice = "none"
    /\ tool = "none"
    /\ is_restore = FALSE
    /\ capture_output = FALSE
    /\ child = "none"
    /\ exitcode = 0
    /\ pipe = << >>
    /\ written = << >>
    /\ output_lines = << >>
    /\ last_progress = NoProgress
    /\ pause_notified = FALSE
    /\ last_percent = NoPercent
    /\ result_buffer = << >>
    /\ notes = << >>
    /\ raised = "none"
    /\ outcome = NoOutcome
    /\ dism_success = FALSE
    /\ report = "none"
    /\ orphans = {}
    /\ elapsed = 0
    /\ earlier = [last_progress |-> NoProgress, pause_notified |-> FALSE]

-----------------------------------------------------------------------------
(* main (lines 320-398). *)

\* one pass of the menu loop up to the call of the runner
Choose(c) ==
    /\ pc = "menu"
    /\ choice' = c
    /\ dism_success' = FALSE
    /\ orphans' = {[o EXCEPT !.current = FALSE] : o \in orphans}
    /\ pc' = IF c = "0" THEN "exited"
             ELSE IF c \in {"1", "2", "3", "4"} THEN "spawn"
             ELSE "menu"
    /\ report' = IF c = "0" THEN "exit"
                 ELSE IF c \in {"1", "2", "3", "4"} THEN "none"
                 ELSE "invalid"
    \* scan_health, restore_health and run_sfc fix the runner's parameters
    /\ tool' = IF c \in {"1", "2", "4"} THEN "dism"
               ELSE IF c = "3" THEN "sfc" ELSE "none"
    /\ is_restore' = (c \in {"2", "4"})
    /\ capture_output' = (c = "1")
    /\ UNCHANGED << childVars, runLocals, raised, outcome, elapsed, earlier >>

\* the message main prints for a finished operation
ReportOf(c, out, dismOk) ==
    IF c = "1"
    THEN IF Contains(out.output, NoCorruption) THEN "healthy"
         ELSE IF Contains(Lower(out.output), Repairable) THEN "notice"
         ELSE IF out.success THEN "success"
         ELSE "warning"
    ELSE IF c = "4"
    THEN IF dismOk /\ out.success THEN "success" ELSE "warning"
    ELSE IF out.success THEN "success" ELSE "warning"

\* the children the run leaves behind when its Popen object is dropped
LeftBehind ==
    IF child \in {"running", "closed"}
    THEN {[tool |-> tool, current |-> TRUE]}
    ELSE {}

\* the runner has returned: main goes on with the rest of the option
Report ==
    /\ pc = "returned"
    /\ orphans' = orphans \cup LeftBehind
    /\ child' = "none"
    /\ exitcode' = 0
    /\ pipe' = << >>
    /\ written' = << >>
    /\ output_lines' = << >>
    /\ last_progress' = NoProgress
    /\ pause_notified' = FALSE
    /\ last_percent' = NoPercent
    /\ result_buffer' = << >>
    /\ notes' = << >>
    /\ raised' = "none"
    /\ outcome' = NoOutcome
    /\ elapsed' = 0
    /\ earlier' = IF tool = "dism" /\ child # "none"
                  THEN [last_progress |-> last_progress,
                        pause_notified |-> pause_notified]
                  ELSE earlier
    /\ IF choice = "4" /\ tool = "dism"
       THEN \* Step 2/2: run_sfc
            /\ dism_success' = outcome.success
            /\ tool' = "sfc"
            /\ is_restore' = FALSE
            /\ capture_output' = FALSE
            /\ pc' = "spawn"
            /\ UNCHANGED << choice, report >>
       ELSE /\ report' = ReportOf(choice, outcome, dism_success)
            /\ pc' = "menu"
            /\ UNCHANGED << choice, dism_success, params >>

-----------------------------------------------------------------------------
(* The child process and the wall clock. *)

ChildWrite(data) ==
    /\ child = "running"
    /\ pipe = << >>
    /\ pipe' = data
    /\ written' = Append(written, data)
    /\ UNCHANGED << pc, params, child, exitcode, runLocals, raised, outcome,
                    mainVars, orphans, elapsed >>

\* the child closes its output and keeps running
ChildClose ==
    /\ child = "running"
    /\ child' = "closed"
    /\ UNCHANGED << pc, params, exitcode, pipe, written, runLocals, raised,
                    outcome, mainVars, orphans, elapsed >>

ChildExit(code) ==
    /\ child \in {"running", "closed"}
    /\ child' = "exited"
    /\ exitcode' = code
    /\ UNCHANGED << pc, params, pipe, written, runLocals, raised, outcome,
                    mainVars, orphans, elapsed >>

OrphanExit(o) ==
    /\ o \in orphans
    /\ orphans' = orphans \ {o}
    /\ UNCHANGED << pc, params, childVars, runLocals, raised, outcome,
                    mainVars, elapsed >>

Tick ==
    /\ pc \in {"read", "wait"}
    /\ elapsed + TickSeconds <= MaxElapsed
    /\ elapsed' = elapsed + TickSeconds
    /\ UNCHANGED << pc, params, childVars, runLocals, raised, outcome,
                    mainVars, orphans >>

-----------------------------------------------------------------------------
(* The runners: run_dism_command (lines 79-183), run_sfc (lines 206-286). *)

\* an exception leaves the try block: the except clause returns, or nothing
\* catches it
Raise(e) ==
    /\ raised' = e
    /\ outcome' = ExceptOutcome(tool, capture_output, e)
    /\ pc' = IF Catches(tool, e) THEN "returned" ELSE "crashed"

\* subprocess.Popen succeeds; the locals of the run are set
Spawn ==
    /\ pc = "spawn"
    /\ child' = "running"
    /\ exitcode' = 0
    /\ pipe' = << >>
    /\ written' = << >>
    /\ output_lines' = << >>
    /\ last_progress' = RunStart.last_progress
    /\ pause_notified' = RunStart.pause_notified
    /\ last_percent' = NoPercent
    /\ result_buffer' = << >>
    /\ notes' = << >>
    /\ elapsed' = 0
    /\ pc' = "read"
    /\ UNCHANGED << params, raised, outcome, mainVars, orphans >>

\* subprocess.Popen raises
SpawnRaises(e) ==
    /\ pc = "spawn"
    /\ e \in SpawnErrors
    /\ Raise(e)
    /\ UNCHANGED << params, childVars, runLocals, mainVars, orphans, elapsed >>

\* progress monitoring in every run of the tool
MonitorsEveryRun(restore, line) == HasPercentSign(line)

\* if is_restore and "%" in line
Monitors(restore, line) == restore /\ HasPercentSign(line)

\* one pass of the loop of run_dism_command with a line read (lines 117-150)
ReadLine ==
    /\ pc = "read"
    /\ tool = "dism"
    /\ pipe # << >>
    /\ pipe' = << >>
    /\ LET line == Strip(pipe)
           m == FirstMatch(line, DismPercents)
           seen == Monitors(is_restore, line) /\ m # 0
           progress == DismFloat(line[m])
       IN  /\ output_lines' = Append(output_lines, line)
           /\ IF seen
              THEN LET kind == Milestone(progress, last_progress, pause_notified)
                   IN  /\ notes' = IF kind = "none" THEN notes
                                   ELSE Append(notes,
                                          [kind |-> kind, at |-> progress,
                                           line |-> Len(output_lines) + 1])
                       /\ pause_notified' = (pause_notified \/ kind = "pause")
                       /\ last_progress' = progress
              ELSE UNCHANGED << notes, pause_notified, last_progress >>
    /\ UNCHANGED << pc, params, child, exitcode, written, last_percent,
                    result_buffer, raised, outcome, mainVars, orphans, elapsed >>

\* one pass of the loop of run_sfc with a chunk read (lines 223-250); the
\* chunk is kept as the text its bytes decode to, null filler included
ReadChunk ==
    /\ pc = "read"
    /\ tool = "sfc"
    /\ pipe # << >>
    /\ pipe' = << >>
    /\ LET text == StripNulls(pipe)
           m == FirstMatch(text, SfcPercents)
       IN  IF HasPercentSign(text)
           THEN /\ IF m # 0 /\ SfcInt(text[m]) # last_percent
                   THEN /\ last_percent' = SfcInt(text[m])
                        /\ notes' = Append(notes,
                              [kind |-> "bar", at |-> SfcInt(text[m]),
                               line |-> (BarWidth * SfcInt(text[m])) \div 100])
                   ELSE UNCHANGED << last_percent, notes >>
                /\ UNCHANGED result_buffer
           ELSE /\ result_buffer' = result_buffer \o text
                /\ UNCHANGED << last_percent, notes >>
    /\ UNCHANGED << pc, params, child, exitcode, written, output_lines,
                    last_progress, pause_notified, raised, outcome, mainVars,
                    orphans, elapsed >>

\* a read, or the processing of what was read, raises
ReadRaises(e) ==
    /\ pc = "read"
    /\ pipe # << >>
    /\ e \in ReadErrors(tool)
    /\ pipe' = << >>
    /\ Raise(e)
    /\ UNCHANGED << params, child, exitcode, written, runLocals, mainVars,
                    orphans, elapsed >>

\* a loop that ends on the first empty read
LoopEndsOnEmptyRead(line, state) == line = << >>

\* if not line and process.poll() is not None: break
LoopEnds(line, state) == line = << >> /\ state = "exited"

\* a read returns at once with nothing when the child has closed its output
\* or has exited and the pipe is empty
EndOfFile == pipe = << >> /\ child \in {"closed", "exited"}

\* a read returns nothing while the child still runs: the loop goes on
ReadEmpty ==
    /\ pc = "read"
    /\ EndOfFile
    /\ ~LoopEnds(pipe, child)
    /\ UNCHANGED vars

\* a read returns nothing and poll() is not None: break
ReadEOF ==
    /\ pc = "read"
    /\ EndOfFile
    /\ LoopEnds(pipe, child)
    /\ pc' = "wait"
    /\ UNCHANGED << params, childVars, runLocals, raised, outcome, mainVars,
                    orphans, elapsed >>

\* what the run returns when process.wait returned (lines 153-170, 267-281)
NormalOutcome ==
    IF tool = "dism"
    THEN [success |-> Success(exitcode),
          output  |-> IF capture_output THEN JoinLines(output_lines)
                      ELSE << >>,
          class   |-> ClassifyDism(JoinLines(output_lines))]
    ELSE [success |-> Success(exitcode),
          output  |-> << >>,
          class   |-> ClassifySfc(FinalResult(result_buffer))]

\* process.wait(timeout=...) and the rest of the run
Wait ==
    /\ pc = "wait"
    /\ IF child = "exited"
       THEN /\ outcome' = NormalOutcome
            /\ pc' = "returned"
            /\ UNCHANGED raised
       ELSE \* the child outlives the timeout: subprocess.TimeoutExpired
            Raise("TimeoutExpired")
    /\ UNCHANGED << params, childVars, runLocals, mainVars, orphans, elapsed >>

-----------------------------------------------------------------------------
(* What the children write. *)

\* a line of DISM output that carries a progress value
ProgressLine(f) == << "[", f, "]", "\n" >>

\* the whole program: a few lines and chunks of each kind
DismLines ==
    { ProgressLine("62.5%"),
      ProgressLine("66.0%"),
      << "No component store corruption detected", "\n" >> }

SfcChunks ==
    { << "Verification", " ", "100%", " ", "complete", "\n" >>,
      << "did not find any", " ", "integrity violations", "\n" >> }

\* progress values that never decrease
MonotonePercents ==
    {"10.0%", "40.0%", "62.0%", "62.5%", "63.0%", "64.0%", "66.0%", "91.0%"}

\* progress values in any order
AnyPercents == {"0.0%", "40.0%", "62.5%", "66.0%", "70.0%", "91.0%"}

\* the result texts of DISM, whole and broken over lines, in both cases, and
\* a line with two progress values
ResultLines ==
    { << "No component store corruption detected", "\n" >>,
      << "no component store corruption detected", "\n" >>,
      << "The component store is", " ", "repairable", "\n" >>,
      << "Repairable", "\n" >>,
      << "successfully", " ", "repaired", "\n" >>,
      << "Completed", " ", "successfully", "\n" >>,
      << "successfully", "\n" >>,
      << " ", "repaired", "\n" >>,
      << "[", "40.0%", "]", " ", "[", "66.0%", "]", "\n" >> }

\* the result texts of SFC: alone, after a percentage in the same chunk,
\* broken over two chunks, with null filler, and a chunk with two progress
\* updates
ResultChunks ==
    { << "Verification", " ", "50%", " ", "complete", "\n" >>,
      << "Verification", " ", "100%", " ", "complete", "\n",
         "did not find any", " ", "integrity violations", "\n" >>,
      << "Did not find any", " ", "integrity violations", "\n" >>,
      << "found corrupt files", " ", "but was unable to fix", "\n" >>,
      << "found corrupt files", " ", "and successfully repaired", "\n" >>,
      << "\\x00", "did not find any" >>,
      << " ", "integrity violations", "\\x00", "\n" >>,
      << "some of them", "\n" >>,
      << "Verification", " ", "50%", " ", "complete", "\r",
         "Verification", " ", "100%", " ", "complete", "\n" >> }

\* the progress value of the last line written, NoProgress when none
LastWritten ==
    IF written = << >> THEN NoProgress
    ELSE DismFloat(written[Len(written)][2])

-----------------------------------------------------------------------------
(* The whole program: every option, exceptions, the wall clock. *)

Options == {"0", "1", "2", "3", "4", "x"}

Writes ==
    /\ Len(written) < MaxLines
    /\ \E data \in (IF tool = "dism" THEN DismLines ELSE SfcChunks) :
           ChildWrite(data)

Next ==
    \/ \E c \in Options : Choose(c)
    \/ Report
    \/ Spawn
    \/ \E e \in SpawnErrors : SpawnRaises(e)
    \/ Writes
    \/ ChildClose
    \/ \E code \in ExitCodes : ChildExit(code)
    \/ \E o \in orphans : OrphanExit(o)
    \/ Tick
    \/ ReadLine
    \/ ReadChunk
    \/ \E e \in ReadErrors(tool) : ReadRaises(e)
    \/ ReadEmpty
    \/ ReadEOF
    \/ Wait

Spec == Init /\ [][Next]_vars

-----------------------------------------------------------------------------
(* Restore runs whose progress values never decrease. *)

MonotoneWrites ==
    /\ Len(written) < MaxMonotoneLines
    /\ \E f \in MonotonePercents :
           /\ DismFloat(f) >= LastWritten
           /\ ChildWrite(ProgressLine(f))

NextMonotone ==
    \/ Choose("2")
    \/ Report
    \/ Spawn
    \/ MonotoneWrites
    \/ \E code \in ExitCodes : ChildExit(code)
    \/ ReadLine
    \/ ReadEOF
    \/ Wait

SpecMonotone == Init /\ [][NextMonotone]_vars

-----------------------------------------------------------------------------
(* Restore runs whose progress values come in any order. *)

ProgressWrites ==
    /\ Len(written) < MaxProgressLines
    /\ \E f \in AnyPercents : ChildWrite(ProgressLine(f))

NextProgress ==
    \/ Choose("2")
    \/ Report
    \/ Spawn
    \/ ProgressWrites
    \/ \E code \in ExitCodes : ChildExit(code)
    \/ ReadLine
    \/ ReadEOF
    \/ Wait

SpecProgress == Init /\ [][NextProgress]_vars

-----------------------------------------------------------------------------
(* Scan, restore and file-checker runs over the result texts. *)

ClassifyWrites ==
    /\ Len(written) < MaxClassifyLines
    /\ \E data \in (IF tool = "dism" THEN ResultLines ELSE ResultChunks) :
           ChildWrite(data)

NextClassify ==
    \/ \E c \in {"1", "2", "3"} : Choose(c)
    \/ Report
    \/ Spawn
    \/ ClassifyWrites
    \/ \E code \in ExitCodes : ChildExit(code)
    \/ ReadLine
    \/ ReadChunk
    \/ ReadEOF
    \/ Wait

SpecClassify == Init /\ [][NextClassify]_vars

-----------------------------------------------------------------------------
(* Properties. *)

\* the value of the i-th progress line the child wrote
ValueAt(i) == DismFloat(written[i][2])

\* the progress values of the lines read so far never decrease
NonDecreasing ==
    \A i \in 1..(Len(output_lines) - 1) : ValueAt(i) <= ValueAt(i + 1)

\* the lines read so far whose value lies in [62.0, 63.0]
PauseHits ==
    {i \in 1..Len(output_lines) : 620 <= ValueAt(i) /\ ValueAt(i) <= 630}

NotesOf(kind) == {k \in 1..Len(notes) : notes[k].kind = kind}

InRestoreRun ==
    tool = "dism" /\ is_restore /\ pc \in {"read", "wait", "returned"}

\* C1: in a restore run whose progress values never decrease, the pause
\* explanation has been printed exactly once, at the first value in
\* [62.0, 63.0], if some value read so far lies in that range, and has not
\* been printed if none does.
C1_PauseExactlyOnce ==
    (InRestoreRun /\ NonDecreasing) =>
        IF PauseHits = {}
        THEN NotesOf("pause") = {}
        ELSE /\ Cardinality(NotesOf("pause")) = 1
             /\ \A k \in NotesOf("pause") :
                    /\ notes[k].line \in PauseHits
                    /\ \A i \in PauseHits : notes[k].line <= i

\* C1: a finished restore run that read two values in [62.0, 63.0] and
\* printed one pause explanation
C1_Witness ==
    /\ InRestoreRun
    /\ pc = "returned"
    /\ Cardinality(PauseHits) >= 2
    /\ Cardinality(NotesOf("pause")) = 1

\* C2: in a restore run, whatever the order of the progress values, the
\* 65%-crossing message is printed at most once.
C2_Cross65AtMostOnce ==
    InRestoreRun => Cardinality(NotesOf("cross65")) <= 1

Rank(kind) ==
    CASE kind = "pause" -> 1 [] kind = "cross65" -> 2 [] kind = "cross90" -> 3

Scenario == << 100, 400, 625, 640, 660, 910 >>

ScenarioRead ==
    /\ Len(output_lines) = Len(Scenario)
    /\ \A i \in 1..Len(Scenario) : ValueAt(i) = Scenario[i]

\* C3: in a restore run whose progress values never decrease, each of the
\* three notifications is printed at most once and they appear in the order
\* pause, 65%-crossing, 90%-crossing; after 10, 40, 62.5, 64, 66, 91 the
\* notifications are one pause at 62.5, one 65%-crossing at 66 and one
\* 90%-crossing at 91.
C3_OnceEachInOrder ==
    (InRestoreRun /\ NonDecreasing) =>
        /\ \A j, k \in 1..Len(notes) :
               j < k => Rank(notes[j].kind) < Rank(notes[k].kind)
        /\ ScenarioRead =>
               notes = << [kind |-> "pause", at |-> 625, line |-> 3],
                          [kind |-> "cross65", at |-> 660, line |-> 5],
                          [kind |-> "cross90", at |-> 910, line |-> 6] >>

\* C3: a finished restore run that read 10, 40, 62.5, 64, 66, 91
C3_Witness ==
    InRestoreRun /\ pc = "returned" /\ ScenarioRead /\ Len(notes) = 3

\* C4: a run is not still reading from or waiting for a running child once
\* more than its timeout (3600 s for DISM, 1800 s for SFC) has passed since
\* the child was spawned.
C4_TimeoutEndsRun ==
    (pc \in {"read", "wait"} /\ child \in {"running", "closed"}) =>
        elapsed <= Timeout(tool)

\* C5: when a run that spawned a child has returned, the child has exited.
C5_ChildExitedAtReturn ==
    (pc = "returned" /\ child # "none") => child = "exited"

\* C6: in the full repair the file checker is started only after the run of
\* the repair tool has returned, and the child of the repair tool and the
\* child of the file checker never run at the same time.
C6_FullRepairSequential ==
    choice = "4" =>
        /\ tool = "dism" => [tool |-> "sfc", current |-> TRUE] \notin orphans
        /\ (tool = "sfc" /\ child \in {"running", "closed"}) =>
               [tool |-> "dism", current |-> TRUE] \notin orphans

\* C7: an exception raised while spawning the child or reading its output
\* never leaves the runner: the run returns a failed outcome (with the
\* message when the output is captured), and the only step main takes from
\* there is on to the next step of the option or back to the menu.
C7_ExceptionsBecomeFailures ==
    /\ [](/\ pc # "crashed"
          /\ (pc = "returned" /\ raised # "none") =>
                 /\ outcome.success = FALSE
                 /\ outcome.output = IF capture_output THEN << raised >>
                                     ELSE << >>)
    /\ [][(pc = "returned" /\ raised # "none") =>
              pc' \in {"returned", "menu", "spawn"}]_vars

\* C7: a scan whose read raised has returned (False, message)
C7_Witness ==
    /\ pc = "returned"
    /\ raised = "UnicodeDecodeError"
    /\ capture_output
    /\ outcome.output = << "UnicodeDecodeError" >>

UnrepairedOnly ==
    << << "found corrupt files", " ", "but was unable to fix", "\n" >> >>

\* C8: a run that returns without an exception returns success exactly when
\* the exit code is 0, whatever the classification: exit code 0 with only
\* "found corrupt files but was unable to fix" in the output is a success
\* classified UnrepairedCorruptFiles, and a nonzero exit code with a healthy
\* text is a failure classified Healthy.
C8_SuccessIsExitCode ==
    (pc = "returned" /\ raised = "none") =>
        /\ outcome.success = (exitcode = 0)
        /\ (tool = "sfc" /\ exitcode = 0 /\ written = UnrepairedOnly) =>
               outcome = [success |-> TRUE, output |-> << >>,
                          class |-> "UnrepairedCorruptFiles"]
        /\ (tool = "dism" /\ exitcode # 0
                /\ Contains(Flatten(written), NoCorruption)) =>
               (~outcome.success /\ outcome.class = "Healthy")

\* C8: a file-checker run with exit code 0 classified UnrepairedCorruptFiles
C8_Witness ==
    /\ pc = "returned"
    /\ tool = "sfc"
    /\ exitcode = 0
    /\ written = UnrepairedOnly
    /\ outcome.success
    /\ outcome.class = "UnrepairedCorruptFiles"

\* C9: the classification of a DISM run is decided over everything the
\* child wrote, first match first: Healthy when it holds "No component store
\* corruption detected" in that case, also when "repairable" occurs too;
\* otherwise RepairableCorruptionFound when it holds "repairable" in any
\* case; otherwise CompletedSuccessfully when it holds "successfully
\* repaired" or "completed successfully" in any case; otherwise Unclassified.
C9_DismClassification ==
    (pc = "returned" /\ tool = "dism" /\ raised = "none") =>
        LET raw == Flatten(written)
        IN  outcome.class =
              IF Contains(raw, << "No component store corruption detected" >>)
              THEN "Healthy"
              ELSE IF Contains(Lower(raw), << "repairable" >>)
              THEN "RepairableCorruptionFound"
              ELSE IF \/ Contains(Lower(raw), << "successfully", " ", "repaired" >>)
                      \/ Contains(Lower(raw), << "completed", " ", "successfully" >>)
              THEN "CompletedSuccessfully"
              ELSE "Unclassified"

\* C9: a run whose output holds both the healthy text and "repairable"
C9_Witness ==
    /\ pc = "returned"
    /\ tool = "dism"
    /\ Contains(Flatten(written), NoCorruption)
    /\ Contains(Lower(Flatten(written)), Repairable)
    /\ outcome.class = "Healthy"

\* C10: the classification of a file-checker run is decided over everything
\* the child wrote: NoViolations when it holds "did not find any integrity
\* violations" in any case, otherwise RepairedCorruptFiles and
\* UnrepairedCorruptFiles for the two "found corrupt files" phrases, in
\* whatever chunk the phrase arrives and whether or not that chunk holds a
\* percentage.
C10_SfcClassifiesFullOutput ==
    (pc = "returned" /\ tool = "sfc" /\ raised = "none") =>
        LET raw == Lower(StripNulls(Flatten(written)))
        IN  IF Contains(raw, NoViolations)
            THEN outcome.class = "NoViolations"
            ELSE IF Contains(raw, RepairedFiles)
            THEN outcome.class = "RepairedCorruptFiles"
            ELSE Contains(raw, UnrepairedFiles) =>
                     outcome.class = "UnrepairedCorruptFiles"

\* the notification of the given kind printed on the i-th line read
NoteAt(kind, i) ==
    \E k \in 1..Len(notes) : notes[k].kind = kind /\ notes[k].line = i

\* the i-th line read has a value before it, and that value is below the mark
PreviousBelow(i, mark) == i > 1 /\ ValueAt(i - 1) < mark

\* C11: on each progress update of a restore run the 65%-crossing message is
\* printed exactly when the pause explanation is not printed on that update,
\* the value is at least 65.0 and a previous value is stored and is below
\* 65.0, a previous value of 0.0 included; it is not printed on the first
\* value of a run.
C11_Cross65ExactlyWhen ==
    InRestoreRun =>
        \A i \in 1..Len(output_lines) :
            NoteAt("cross65", i) <=>
                /\ ~NoteAt("pause", i)
                /\ ValueAt(i) >= 650
                /\ PreviousBelow(i, 650)

\* the notification the priority rule gives the i-th line read: the pause
\* explanation, else the 65%-crossing, else the 90%-crossing, else none
Expected(i) ==
    IF /\ 620 <= ValueAt(i)
       /\ ValueAt(i) <= 630
       /\ \A j \in 1..(i - 1) : ~NoteAt("pause", j)
    THEN "pause"
    ELSE IF ValueAt(i) >= 650 /\ PreviousBelow(i, 650) THEN "cross65"
    ELSE IF ValueAt(i) >= 900 /\ PreviousBelow(i, 900) THEN "cross90"
    ELSE "none"

\* C12: each progress update of a restore run prints at most one of the
\* three notifications, the first in the order pause, 65%-crossing,
\* 90%-crossing whose condition holds; an update from a stored value below
\* 65 to a value of 90 or more prints the 65%-crossing and not the
\* 90%-crossing.
C12_OneNotePerUpdate ==
    InRestoreRun =>
        \A i \in 1..Len(output_lines) :
            /\ Cardinality({k \in 1..Len(notes) : notes[k].line = i}) <= 1
            /\ \A kind \in {"pause", "cross65", "cross90"} :
                   NoteAt(kind, i) <=> Expected(i) = kind
            /\ (PreviousBelow(i, 650) /\ ValueAt(i) >= 900) =>
                   (NoteAt("cross65", i) /\ ~NoteAt("cross90", i))

\* C13: after every progress update of a restore run the stored previous
\* value is the value of that update, not the largest seen; so when a value
\* below 65 follows a higher one, a value of 65 or more right after it
\* prints the 65%-crossing.
C13_PreviousIsLastValue ==
    InRestoreRun =>
        /\ last_progress = IF output_lines = << >> THEN NoProgress
                           ELSE ValueAt(Len(output_lines))
        /\ \A i \in 3..Len(output_lines) :
               (/\ ValueAt(i - 2) > ValueAt(i - 1)
                /\ ValueAt(i - 1) < 650
                /\ ValueAt(i) >= 650) => NoteAt("cross65", i)

\* the position of the rightmost percentage of a fragment, 0 when none
LastPercentIn(text, percents) ==
    LET hits == {i \in 1..Len(text) : text[i] \in percents}
    IN  IF hits = {} THEN 0 ELSE CHOOSE i \in hits : \A k \in hits : k <= i

\* the number of fragments the runner has read
FragmentsRead == Len(written) - (IF pipe = << >> THEN 0 ELSE 1)

\* the progress value of the last match of the last of the first k lines
\* written that holds a match, NoProgress when none does
RECURSIVE LatestProgress(_)
LatestProgress(k) ==
    IF k = 0 THEN NoProgress
    ELSE LET at == LastPercentIn(written[k], DismPercents)
         IN  IF at = 0 THEN LatestProgress(k - 1)
             ELSE DismFloat(written[k][at])

\* the same for the chunks of the file checker
RECURSIVE LatestPercent(_)
LatestPercent(k) ==
    IF k = 0 THEN NoPercent
    ELSE LET at == LastPercentIn(written[k], SfcPercents)
         IN  IF at = 0 THEN LatestPercent(k - 1)
             ELSE SfcInt(written[k][at])

\* C14: the progress value taken from a line of a restore run or from a
\* chunk of the file checker that holds several percentages is the value of
\* the last of them; a line or chunk with no percentage leaves the progress
\* state as it was.
C14_LastMatchWins ==
    (pc \in {"read", "wait", "returned"} /\ raised = "none") =>
        /\ (tool = "dism" /\ is_restore) =>
               last_progress = LatestProgress(FragmentsRead)
        /\ tool = "sfc" => last_percent = LatestPercent(FragmentsRead)

\* the lines the child wrote and the runner has read, stripped, in order
LinesRead == [i \in 1..FragmentsRead |-> Strip(written[i])]

\* C15: the read loop of run_dism_command has ended only when a read
\* returned nothing and the child had exited: past the loop the child has
\* exited, nothing it wrote is left unread, and every line it wrote has been
\* appended to the accumulated output in the order it was written; while the
\* loop runs the accumulated output is the lines read so far.
C15_LoopEndsAtExit ==
    (tool = "dism" /\ raised = "none") =>
        /\ pc \in {"wait", "returned"} =>
               /\ child = "exited"
               /\ pipe = << >>
               /\ Len(output_lines) = Len(written)
        /\ pc \in {"read", "wait", "returned"} => output_lines = LinesRead

\* C15: the loop has ended after two lines were written and read
C15_Witness ==
    /\ tool = "dism"
    /\ pc = "wait"
    /\ Len(written) >= 2
    /\ output_lines = LinesRead

\* the lines read so far in this run that carry a progress value
OwnUpdates ==
    {i \in 1..Len(output_lines) : FirstMatch(output_lines[i], DismPercents) # 0}

\* the progress value of the i-th line read in this run
OwnValue(i) ==
    DismFloat(output_lines[i][FirstMatch(output_lines[i], DismPercents)])

\* C16: the progress state is created fresh at the start of each run of
\* run_dism_command and is not shared across runs: in a restore run the
\* previous value is None and the pause flag is clear until the run has read
\* its own first progress value, the pause explanation has been printed if
\* and only if one of the run's own values lay in [62.0, 63.0], whether or
\* not an earlier run printed it, and no crossing message is printed at the
\* run's first progress value, which has no previous value of this run to
\* be compared with.
C16_ProgressStatePerRun ==
    (InRestoreRun /\ raised = "none") =>
        /\ OwnUpdates = {} =>
               (last_progress = NoProgress /\ ~pause_notified)
        /\ NotesOf("pause") # {} <=>
               \E i \in OwnUpdates :
                   PauseLow <= OwnValue(i) /\ OwnValue(i) <= PauseHigh
        /\ \A i \in OwnUpdates :
               (\A j \in OwnUpdates : i <= j) =>
                   (~NoteAt("cross65", i) /\ ~NoteAt("cross90", i))

\* C16: a restore run has printed the pause explanation after an earlier
\* run had printed it and had ended with a previous value
C16_Witness ==
    /\ InRestoreRun
    /\ raised = "none"
    /\ earlier.pause_notified
    /\ earlier.last_progress # NoProgress
    /\ NotesOf("pause") # {}

\* C17: milestone notifications apply only to the restore run: while the
\* run is a scan-health run or a file-checker run, no pause explanation and
\* no 65% or 90% crossing message has been printed, whatever progress values
\* the output holds.
C17_MilestonesOnlyInRestore ==
    ~(tool = "dism" /\ is_restore) =>
        \A k \in 1..Len(notes) :
            notes[k].kind \notin {"pause", "cross65", "cross90"}

\* C17: a scan-health run has returned after reading the values 62.5 and
\* 66.0 and has printed nothing
C17_Witness ==
    /\ tool = "dism"
    /\ ~is_restore
    /\ pc = "returned"
    /\ \E i, j \in OwnUpdates : OwnValue(i) = 625 /\ OwnValue(j) = 660 /\ i < j
    /\ notes = << >>

\* C18: classification never overrides the success flag in what menu option
\* 1 reports: when the scan run returned with its success flag false, the
\* report that main prints is the warning one, never a [SUCCESS] one,
\* whatever text the output holds.
C18_ScanFailureReported ==
    [][(pc = "returned" /\ pc' = "menu" /\ choice = "1" /\ ~outcome.success)
          => report' = "warning"]_vars

=============================================================================
